---- MODULE Spec2Model ----
(***************************************************************************)
(* Model of the calorie calculator backend (src/app.py).                   *)
(*                                                                         *)
(* Two request handlers carry the logic that is verified here:             *)
(*   calculate_nutrition  validates and resolves ingredient lines one by   *)
(*                        one against the remote food service and sums     *)
(*                        the scaled nutrient amounts;                     *)
(*   save_recipe / get_recipes  persist and list recipes per user.         *)
(*                                                                         *)
(* Nutrient totals are floats in the program.  The model keeps them as     *)
(* exact rationals with denominator 100: a total t of the program is the   *)
(* integer 100 * t here (quantity / 100 is the integer quantity counted in *)
(* hundredths).                                                            *)
(***************************************************************************)
EXTENDS Integers, Sequences, FiniteSets, TLC

(***************************************************************************)
(* Bounds of the model.                                                    *)
(***************************************************************************)
MaxLines == 2

MaxRecipes == 2

(***************************************************************************)
(* Python values.                                                          *)
(***************************************************************************)
None == "None"

Falsy(v) == v \in {None, ""}

\* the empty response payload part (no totals object)
NoBody == [k \in {} |-> 0]

(***************************************************************************)
(* src/app.py:42-48                                                        *)
(***************************************************************************)
NutrientNames == {"calories", "protein", "fat", "carbohydrates", "fiber"}

NUTRIENT_IDS ==
    [key \in NutrientNames |->
        CASE key = "calories" -> 1008
          [] key = "protein" -> 1003
          [] key = "fat" -> 1004
          [] key = "carbohydrates" -> 1005
          [] key = "fiber" -> 1079]

(***************************************************************************)
(* The request bodies the client can send to /calculate_nutrition.         *)
(* A quantity is absent, JSON null or a number; a food id is absent        *)
(* (ingredient.get('fdcId') is None) or names a food.                      *)
(***************************************************************************)
FoodIds == {"X", "Y", "Z"}

FdcIdValues == {None} \cup FoodIds

QuantityValues ==
    {[kind |-> "absent", val |-> 0], [kind |-> "null", val |-> 0]}
        \cup [kind : {"num"}, val : {0 - 50, 0, 50, 100}]

IngredientLines == [fdcId : FdcIdValues, quantity : QuantityValues]

SeqsUpTo(S, n) == UNION {[1..m -> S] : m \in 0..n}

Requests ==
    {[hasIngredients |-> FALSE, ingredients |-> <<>>]}
        \cup [hasIngredients : {TRUE}, ingredients : SeqsUpTo(IngredientLines, MaxLines)]

(***************************************************************************)
(* The remote food service (GET FDC_FOOD_URL/<fdc_id>).  One call ends in  *)
(* one of four ways; a well-formed answer carries the food's record.       *)
(*   X  flour: all five nutrients reported                                 *)
(*   Y  sugar: calories and carbohydrates reported; an entry without       *)
(*      'nutrient', one whose nutrient has no 'id', a repeated id, an      *)
(*      entry without 'amount' and an unrecognised nutrient id             *)
(*   Z  a record without a 'foodNutrients' list                            *)
(***************************************************************************)
RemoteOutcomes == {"ok", "network", "http", "malformed"}

Entry(nid, amount) ==
    [hasNutrient |-> TRUE, hasId |-> TRUE, id |-> nid, hasAmount |-> TRUE, amount |-> amount]

FoodData ==
    [f \in FoodIds |->
        CASE f = "X" ->
               [hasFoodNutrients |-> TRUE,
                foodNutrients |-> << Entry(1008, 364), Entry(1003, 10), Entry(1004, 1),
                                     Entry(1005, 76), Entry(1079, 3) >>]
          [] f = "Y" ->
               [hasFoodNutrients |-> TRUE,
                foodNutrients |-> << Entry(1008, 400),
                                     [Entry(1004, 7) EXCEPT !.hasNutrient = FALSE],
                                     [Entry(1079, 9) EXCEPT !.hasId = FALSE],
                                     Entry(1005, 30),
                                     Entry(1005, 100),
                                     [Entry(1003, 8) EXCEPT !.hasAmount = FALSE],
                                     Entry(2047, 5) >>]
          [] f = "Z" ->
               [hasFoodNutrients |-> FALSE, foodNutrients |-> <<>>]]

(***************************************************************************)
(* State.                                                                  *)
(***************************************************************************)
VARIABLES
    pc,               \* position of the calculate_nutrition request
    request,          \* request.json of the calculate_nutrition request
    idx,              \* 1-based index of the line the for loop is at
    total_nutrients,  \* the running totals (hundredths)
    response,         \* what calculate_nutrition returned
    callLog,          \* the remote detail lookups issued for the request, in order
    recipes,          \* the recipes table
    clock,            \* the database clock that stamps created_at
    storeOp,          \* the last recipe-store request handled
    storeResp,        \* and its response
    saved             \* what each successful save_recipe call was given, by row id

calcVars == <<pc, request, idx, total_nutrients, response, callLog>>

storeVars == <<recipes, clock, storeOp, storeResp, saved>>

vars == <<pc, request, idx, total_nutrients, response, callLog,
          recipes, clock, storeOp, storeResp, saved>>

(***************************************************************************)
(* Responses.  error_response, src/app.py:53-54; a 200 answer carries the  *)
(* totals object.                                                          *)
(***************************************************************************)
error_response(message, status_code) ==
    [status |-> status_code, error |-> message, body |-> NoBody]

jsonify_totals(totals) ==
    [status |-> 200, error |-> "", body |-> totals]

NoResponse == [status |-> 0, error |-> "", body |-> NoBody]

(***************************************************************************)
(* calculate_nutrition, src/app.py:159-183: the pure parts.                *)
(***************************************************************************)
\* request.json.get('ingredients', [])
GetIngredients(req) ==
    IF req.hasIngredients THEN req.ingredients ELSE <<>>

NoIngredients_Never(ingredients) == FALSE

\* `not ingredients`
NoIngredients(ingredients) == Len(ingredients) = 0

ZeroTotals == [key \in NutrientNames |-> 0]

\* ingredient.get('quantity', 0)
GetQuantity(ingredient) ==
    IF ingredient.quantity.kind = "absent"
        THEN [kind |-> "num", val |-> 0]
        ELSE ingredient.quantity

\* float(None) raises TypeError
FloatRaises(q) == q.kind = "null"

Float(q) == q.val

InvalidIngredient_IdOnly(fdc_id, quantity) == Falsy(fdc_id)

\* `not fdc_id or quantity <= 0`
InvalidIngredient(fdc_id, quantity) == Falsy(fdc_id) \/ quantity <= 0

\* quantity / 100, counted in hundredths
ScalingFactor(quantity) == quantity

LookupRaises_NoStatusCheck(outcome) == outcome \in {"network", "malformed"}

\* requests.get raising (connection error, timeout), raise_for_status raising
\* on a non-2xx answer, response.json() raising on a body that is not JSON
LookupRaises(outcome) == outcome \in {"network", "http", "malformed"}

ExceptionName(outcome) ==
    CASE outcome = "network" -> "ConnectionError"
      [] outcome = "http" -> "HTTPError"
      [] outcome = "malformed" -> "JSONDecodeError"

\* food_data.get('foodNutrients', [])
GetFoodNutrients(food_data) ==
    IF food_data.hasFoodNutrients THEN food_data.foodNutrients ELSE <<>>

\* {n['nutrient']['id']: n.get('amount', 0) for n in ... if 'nutrient' in n
\*  and 'id' in n['nutrient']}: a later entry of the same id replaces an earlier
RECURSIVE ParseNutrients(_)
ParseNutrients(entries) ==
    IF entries = <<>> THEN [i \in {} |-> 0]
    ELSE LET front == ParseNutrients(SubSeq(entries, 1, Len(entries) - 1))
             n == entries[Len(entries)]
         IN  IF n.hasNutrient /\ n.hasId
                THEN [i \in DOMAIN front \cup {n.id} |->
                        IF i = n.id
                            THEN (IF n.hasAmount THEN n.amount ELSE 0)
                            ELSE front[i]]
                ELSE front

DictGet(d, key, default) == IF key \in DOMAIN d THEN d[key] ELSE default

LookupAmount_DefaultOne(nutrients, nid) == DictGet(nutrients, nid, 1)

\* nutrients.get(nid, 0)
LookupAmount(nutrients, nid) == DictGet(nutrients, nid, 0)

Contribution_Unscaled(amount, scaling_factor) == amount

\* nutrients.get(nid, 0) * scaling_factor
Contribution(amount, scaling_factor) == amount * scaling_factor

\* for key, nid in NUTRIENT_IDS.items(): total_nutrients[key] += ...
Accumulate(totals, nutrients, scaling_factor) ==
    [key \in NutrientNames |->
        totals[key] + Contribution(LookupAmount(nutrients, NUTRIENT_IDS[key]), scaling_factor)]

(***************************************************************************)
(* calculate_nutrition as steps: the entry (lines 161-165), one loop       *)
(* iteration per step (lines 166-178, each holds one blocking remote       *)
(* call) and the return (lines 179-180).  An exception anywhere ends the   *)
(* request with the 500 answer of lines 181-183.                           *)
(***************************************************************************)
CalcBegin(req) ==
    /\ pc = "idle"
    /\ request' = req
    /\ callLog' = <<>>
    /\ idx' = 1
    /\ total_nutrients' = ZeroTotals
    /\ IF NoIngredients(GetIngredients(req))
          THEN /\ response' = error_response("No ingredients provided", 400)
               /\ pc' = "done"
          ELSE /\ response' = NoResponse
               /\ pc' = "loop"
    /\ UNCHANGED storeVars

CalcLine ==
    /\ pc = "loop"
    /\ idx <= Len(GetIngredients(request))
    /\ LET ingredient == GetIngredients(request)[idx]
           fdc_id == ingredient.fdcId
           q == GetQuantity(ingredient)
       IN  IF FloatRaises(q)
              THEN /\ response' = error_response("TypeError", 500)
                   /\ pc' = "done"
                   /\ UNCHANGED <<idx, total_nutrients, callLog>>
           ELSE IF InvalidIngredient(fdc_id, Float(q))
              THEN /\ response' = error_response("Invalid ingredient data", 400)
                   /\ pc' = "done"
                   /\ UNCHANGED <<idx, total_nutrients, callLog>>
           ELSE \E outcome \in RemoteOutcomes :
                /\ callLog' = Append(callLog,
                                [line |-> idx, fdcId |-> fdc_id, outcome |-> outcome])
                /\ IF LookupRaises(outcome)
                      THEN /\ response' = error_response(ExceptionName(outcome), 500)
                           /\ pc' = "done"
                           /\ UNCHANGED <<idx, total_nutrients>>
                      ELSE /\ total_nutrients' =
                                Accumulate(total_nutrients,
                                           ParseNutrients(GetFoodNutrients(FoodData[fdc_id])),
                                           ScalingFactor(Float(q)))
                           /\ idx' = idx + 1
                           /\ UNCHANGED <<pc, response>>
    /\ UNCHANGED <<request, storeVars>>

CalcReturn ==
    /\ pc = "loop"
    /\ idx > Len(GetIngredients(request))
    /\ response' = jsonify_totals(total_nutrients)
    /\ pc' = "done"
    /\ UNCHANGED <<request, idx, total_nutrients, callLog, storeVars>>

\* the response is sent and the request's locals are gone
CalcEnd ==
    /\ pc = "done"
    /\ pc' = "idle"
    /\ request' = [hasIngredients |-> FALSE, ingredients |-> <<>>]
    /\ idx' = 1
    /\ total_nutrients' = ZeroTotals
    /\ response' = NoResponse
    /\ callLog' = <<>>
    /\ UNCHANGED storeVars

calculate_nutrition ==
    \/ (pc = "idle" /\ \E req \in Requests : CalcBegin(req))
    \/ CalcLine
    \/ CalcReturn
    \/ CalcEnd

(***************************************************************************)
(* JSON values, and json.dumps / json.loads between a value and its text.  *)
(* The text is kept as its sequence of tokens.                             *)
(***************************************************************************)
JNull == [t |-> "null", s |-> "", n |-> 0, items |-> <<>>]

JStr(str) == [t |-> "str", s |-> str, n |-> 0, items |-> <<>>]

JNum(num) == [t |-> "num", s |-> "", n |-> num, items |-> <<>>]

JList(values) == [t |-> "list", s |-> "", n |-> 0, items |-> values]

\* members: a sequence of <<key, value>> pairs, in insertion order
JObj(members) == [t |-> "obj", s |-> "", n |-> 0, items |-> members]

\* Python truthiness of a decoded JSON value
Truthy(v) ==
    CASE v.t = "null" -> FALSE
      [] v.t = "str" -> v.s # ""
      [] v.t = "num" -> v.n # 0
      [] OTHER -> v.items # <<>>

Punct(c) == [k |-> "p", s |-> c, n |-> 0]

StrTok(str) == [k |-> "str", s |-> str, n |-> 0]

NumTok(num) == [k |-> "num", s |-> "", n |-> num]

NullTok == [k |-> "null", s |-> "", n |-> 0]

RECURSIVE json_dumps(_)
RECURSIVE DumpItems(_)
RECURSIVE DumpMembers(_)
json_dumps(v) ==
    CASE v.t = "null" -> <<NullTok>>
      [] v.t = "str" -> <<StrTok(v.s)>>
      [] v.t = "num" -> <<NumTok(v.n)>>
      [] v.t = "list" -> <<Punct("[")>> \o DumpItems(v.items) \o <<Punct("]")>>
      [] v.t = "obj" -> <<Punct("{")>> \o DumpMembers(v.items) \o <<Punct("}")>>

DumpItems(values) ==
    IF values = <<>> THEN <<>>
    ELSE IF Len(values) = 1 THEN json_dumps(values[1])
    ELSE json_dumps(values[1]) \o <<Punct(",")>> \o DumpItems(Tail(values))

DumpMembers(members) ==
    IF members = <<>> THEN <<>>
    ELSE LET m == <<StrTok(members[1][1]), Punct(":")>> \o json_dumps(members[1][2])
         IN  IF Len(members) = 1 THEN m
             ELSE m \o <<Punct(",")>> \o DumpMembers(Tail(members))

\* the parser: each operator returns the value read and the position after it
RECURSIVE ParseValue(_, _)
RECURSIVE ParseItems(_, _, _)
RECURSIVE ParseMembers(_, _, _)
ParseValue(toks, i) ==
    LET tok == toks[i]
    IN  CASE tok.k = "null" -> [value |-> JNull, next |-> i + 1]
          [] tok.k = "str" -> [value |-> JStr(tok.s), next |-> i + 1]
          [] tok.k = "num" -> [value |-> JNum(tok.n), next |-> i + 1]
          [] tok = Punct("[") ->
                IF toks[i + 1] = Punct("]")
                    THEN [value |-> JList(<<>>), next |-> i + 2]
                    ELSE ParseItems(toks, i + 1, <<>>)
          [] tok = Punct("{") ->
                IF toks[i + 1] = Punct("}")
                    THEN [value |-> JObj(<<>>), next |-> i + 2]
                    ELSE ParseMembers(toks, i + 1, <<>>)

ParseItems(toks, i, acc) ==
    LET r == ParseValue(toks, i)
    IN  IF toks[r.next] = Punct(",")
            THEN ParseItems(toks, r.next + 1, Append(acc, r.value))
            ELSE [value |-> JList(Append(acc, r.value)), next |-> r.next + 1]

ParseMembers(toks, i, acc) ==
    LET r == ParseValue(toks, i + 2)
        m == <<toks[i].s, r.value>>
    IN  IF toks[r.next] = Punct(",")
            THEN ParseMembers(toks, r.next + 1, Append(acc, m))
            ELSE [value |-> JObj(Append(acc, m)), next |-> r.next + 1]

json_loads(toks) == ParseValue(toks, 1).value

(***************************************************************************)
(* The request bodies the client can send to /save_recipe.  data.get(...)  *)
(* gives None for an absent field as for a JSON null: both are JNull.      *)
(***************************************************************************)
Users == {1, 2}

RecipeNames == {JNull, JStr(""), JStr("cake"), JStr("pie")}

LineJson(fdc_id, quantity) ==
    JObj(<< <<"fdcId", JStr(fdc_id)>>, <<"quantity", JNum(quantity)>> >>)

RecipeIngredients ==
    {JNull, JList(<<>>), JList(<<LineJson("X", 100), LineJson("Y", 50)>>)}

RecipeNutrition ==
    {JObj(<<>>),
     JObj(<< <<"calories", JNum(564)>>, <<"protein", JNum(10)>>, <<"fat", JNum(1)>>,
             <<"carbohydrates", JNum(126)>>, <<"fiber", JNum(3)>> >>)}

NoOp == [op |-> "none", user_id |-> 0, name |-> JNull, ingredients |-> JNull]

StoreNoResponse == [status |-> 0, error |-> "", rows |-> <<>>]

store_error_response(message, status_code) ==
    [status |-> status_code, error |-> message, rows |-> <<>>]

(***************************************************************************)
(* save_recipe, src/app.py:187-208.                                        *)
(***************************************************************************)
MissingRequiredFields_NameUnchecked(user_id, name, ingredients, nutrition) ==
    ~(user_id # 0 /\ Truthy(ingredients) /\ Truthy(nutrition))

\* `not all([user_id, name, ingredients, nutrition])`
MissingRequiredFields(user_id, name, ingredients, nutrition) ==
    ~(user_id # 0 /\ Truthy(name) /\ Truthy(ingredients) /\ Truthy(nutrition))

\* INSERT INTO recipes (user_id, name, ingredients, nutrition) VALUES (...):
\* the database numbers the row and stamps created_at
InsertRecipe(table, user_id, name, ingredients, nutrition, now) ==
    Append(table,
           [id |-> Len(table) + 1, user_id |-> user_id, name |-> name.s,
            ingredients |-> json_dumps(ingredients), nutrition |-> json_dumps(nutrition),
            created_at |-> now])

save_recipe(user_id, name, ingredients, nutrition, dbOk) ==
    /\ storeOp' = [op |-> "save", user_id |-> user_id, name |-> name,
                   ingredients |-> ingredients]
    /\ IF MissingRequiredFields(user_id, name, ingredients, nutrition)
          THEN /\ storeResp' = store_error_response("Missing required fields", 400)
               /\ UNCHANGED recipes
               /\ UNCHANGED saved
       ELSE IF ~dbOk
          THEN /\ storeResp' = store_error_response("OperationalError", 500)
               /\ UNCHANGED <<recipes, saved>>
       ELSE /\ Len(recipes) < MaxRecipes
            /\ recipes' = InsertRecipe(recipes, user_id, name, ingredients, nutrition, clock)
            /\ saved' = Append(saved, [user_id |-> user_id, name |-> name,
                                       ingredients |-> ingredients, nutrition |-> nutrition])
            /\ storeResp' = [status |-> 201, error |-> "", rows |-> <<>>]
    /\ UNCHANGED <<clock, calcVars>>

(***************************************************************************)
(* get_recipes, src/app.py:212-232.                                        *)
(***************************************************************************)
\* WHERE user_id = %s
RECURSIVE SelectByUser(_, _)
SelectByUser(table, user_id) ==
    IF table = <<>> THEN <<>>
    ELSE LET front == SelectByUser(SubSeq(table, 1, Len(table) - 1), user_id)
             r == table[Len(table)]
         IN  IF r.user_id = user_id THEN Append(front, r) ELSE front

ComesFirst_Ascending(a, b) == a <= b

\* the row comes first whose created_at is later
ComesFirst(a, b) == a >= b

\* ORDER BY created_at DESC: every order of the rows the clause allows (rows
\* of one created_at come in any order)
OrderByCreatedAtDesc(rows) ==
    {[i \in 1..Len(rows) |-> rows[p[i]]] : p \in
        {q \in Permutations(1..Len(rows)) :
            \A i, j \in 1..Len(rows) :
                i < j => ComesFirst(rows[q[i]].created_at, rows[q[j]].created_at)}}

\* {'id': r[0], 'name': r[1], 'ingredients': json.loads(r[2]),
\*  'nutrition': json.loads(r[3]), 'created_at': r[4].isoformat()}
RecipeJson(r) ==
    [id |-> r.id, name |-> r.name, ingredients |-> json_loads(r.ingredients),
     nutrition |-> json_loads(r.nutrition), created_at |-> r.created_at]

get_recipes(user_id, dbOk) ==
    /\ storeOp' = [NoOp EXCEPT !.op = "get", !.user_id = user_id]
    /\ IF ~dbOk
          THEN storeResp' = store_error_response("OperationalError", 500)
          ELSE \E rows \in OrderByCreatedAtDesc(SelectByUser(recipes, user_id)) :
                  storeResp' = [status |-> 200, error |-> "",
                                rows |-> [i \in 1..Len(rows) |-> RecipeJson(rows[i])]]
    /\ UNCHANGED <<recipes, clock, saved, calcVars>>

\* time passes at the database.  Only the order of the created_at stamps
\* matters: the clock needs no more values than the table has rows.
Tick ==
    /\ clock < Len(recipes)
    /\ clock' = clock + 1
    /\ UNCHANGED <<recipes, storeOp, storeResp, saved, calcVars>>

(***************************************************************************)
(* Specifications.  The aggregation handler and the recipe store share no  *)
(* state: each is checked by itself.                                       *)
(***************************************************************************)
Init ==
    /\ pc = "idle"
    /\ request = [hasIngredients |-> FALSE, ingredients |-> <<>>]
    /\ idx = 1
    /\ total_nutrients = ZeroTotals
    /\ response = NoResponse
    /\ callLog = <<>>
    /\ recipes = <<>>
    /\ clock = 0
    /\ storeOp = NoOp
    /\ storeResp = StoreNoResponse
    /\ saved = <<>>

Next == calculate_nutrition

Spec == Init /\ [][Next]_vars

StoreNext ==
    \/ \E user_id \in Users, name \in RecipeNames, ingredients \in RecipeIngredients,
          nutrition \in RecipeNutrition, dbOk \in BOOLEAN :
            save_recipe(user_id, name, ingredients, nutrition, dbOk)
    \/ \E user_id \in Users, dbOk \in BOOLEAN : get_recipes(user_id, dbOk)
    \/ Tick

SpecStore == Init /\ [][StoreNext]_vars

(***************************************************************************)
(* Properties of calculate_nutrition (checked under Spec).                 *)
(***************************************************************************)
Lines == GetIngredients(request)

\* a line as the aggregation contract reads it
MissingFoodId(l) == l.fdcId = None

NonPositiveQuantity(l) == l.quantity.kind = "num" /\ l.quantity.val <= 0

MissingQuantity(l) == l.quantity.kind \in {"absent", "null"}

ValidLine(l) == ~MissingFoodId(l) /\ l.quantity.kind = "num" /\ l.quantity.val > 0

LastCall == callLog[Len(callLog)]

LookupFailed == callLog # <<>> /\ LastCall.outcome # "ok"

Succeeded == pc = "done" /\ response.status = 200

\* C1: a request with a missing food id or a quantity <= 0 at any position
\* fails with the validation error and issues no remote lookup at all
\* (stated for the requests whose quantities are all numbers or absent; a
\* null quantity is C5's case).
C1_ValidationBeforeAnyLookup ==
    (/\ pc # "idle"
     /\ \A i \in DOMAIN Lines : Lines[i].quantity.kind # "null"
     /\ \E i \in DOMAIN Lines : MissingFoodId(Lines[i]) \/ NonPositiveQuantity(Lines[i]))
        => /\ callLog = <<>>
           /\ pc = "done" => response.status = 400

\* C2: when the remote lookup of a line fails (network failure or timeout,
\* non-2xx answer, body that is not JSON) the request ends at once with an
\* error response that carries no totals.
C2_AllOrNothing ==
    LookupFailed =>
        /\ pc = "done"
        /\ response.status = 500
        /\ response.body = NoBody

C2_Witness ==
    /\ LookupFailed
    /\ Len(callLog) = 2
    /\ total_nutrients # ZeroTotals
    /\ response.status = 500

\* the per-100g profiles of the three foods, as the remote service reports them
ExpectedProfile ==
    [f \in FoodIds |->
        CASE f = "X" -> [calories |-> 364, protein |-> 10, fat |-> 1,
                         carbohydrates |-> 76, fiber |-> 3]
          [] f = "Y" -> [calories |-> 400, protein |-> 0, fat |-> 0,
                         carbohydrates |-> 100, fiber |-> 0]
          [] f = "Z" -> [calories |-> 0, protein |-> 0, fat |-> 0,
                         carbohydrates |-> 0, fiber |-> 0]]

\* the sum over the lines of profile[key] * quantity (hundredths)
RECURSIVE ExpectedTotal(_, _)
ExpectedTotal(lines, key) ==
    IF lines = <<>> THEN 0
    ELSE ExpectedTotal(SubSeq(lines, 1, Len(lines) - 1), key)
            + ExpectedProfile[lines[Len(lines)].fdcId][key] * lines[Len(lines)].quantity.val

FlourAndSugar ==
    << [fdcId |-> "X", quantity |-> [kind |-> "num", val |-> 100]],
       [fdcId |-> "Y", quantity |-> [kind |-> "num", val |-> 50]] >>

\* C3: the totals of a successful request are, per nutrient, the sum over the
\* lines of profile * quantity / 100, a repeated food id counting once per
\* line; 100 g of flour and 50 g of sugar give 564, 10, 1, 126 and 3.
C3_TotalsAreScaledSums ==
    Succeeded =>
        /\ \A key \in NutrientNames : response.body[key] = ExpectedTotal(Lines, key)
        /\ Lines = FlourAndSugar =>
              response.body = [calories |-> 56400, protein |-> 1000, fat |-> 100,
                               carbohydrates |-> 12600, fiber |-> 300]

C3_Witness ==
    /\ Succeeded
    /\ Lines = FlourAndSugar
    /\ response.body["calories"] = 56400

\* C4: once a food id has been resolved from the remote service, no later
\* resolution of that id calls the remote service again.
C4_NoLookupAfterResolved ==
    \A i, j \in DOMAIN callLog :
        (i < j /\ callLog[i].outcome = "ok") => callLog[j].fdcId # callLog[i].fdcId

\* C5: a request with a line whose quantity is zero, negative or missing
\* (absent or null) ends, when no lookup failed, with the 400 answer
\* 'Invalid ingredient data'.
C5_BadQuantityIsValidationError ==
    (/\ pc = "done"
     /\ ~LookupFailed
     /\ \E i \in DOMAIN Lines : NonPositiveQuantity(Lines[i]) \/ MissingQuantity(Lines[i]))
        => /\ response.status = 400
           /\ response.error = "Invalid ingredient data"

\* C6: a request with an empty ingredient list, or with no ingredients field,
\* never enters the loop: it ends with the 400 answer 'No ingredients
\* provided', without totals and without a remote lookup.
C6_EmptyIsRejected ==
    (pc # "idle" /\ (~request.hasIngredients \/ request.ingredients = <<>>))
        => /\ pc = "done"
           /\ response = error_response("No ingredients provided", 400)
           /\ callLog = <<>>

C6_Witness ==
    /\ pc = "done"
    /\ request.hasIngredients
    /\ request.ingredients = <<>>
    /\ response.status = 400

\* the remote record of food f lists nutrient key
Reports(f, key) ==
    \E i \in DOMAIN FoodData[f].foodNutrients :
        LET n == FoodData[f].foodNutrients[i]
        IN  FoodData[f].hasFoodNutrients /\ n.hasNutrient /\ n.hasId /\ n.id = NUTRIENT_IDS[key]

\* C7: a successful response has exactly the five nutrient keys, each total
\* is non-negative, and a nutrient that no line's remote record lists has
\* the total 0.
C7_FiveKeysAbsentIsZero ==
    Succeeded =>
        /\ DOMAIN response.body = NutrientNames
        /\ \A key \in NutrientNames :
              /\ response.body[key] >= 0
              /\ (\A i \in DOMAIN Lines : ~Reports(Lines[i].fdcId, key))
                    => response.body[key] = 0

C7_Witness ==
    /\ Succeeded
    /\ \A i \in DOMAIN Lines : Lines[i].fdcId = "Y"
    /\ response.body["fat"] = 0
    /\ response.body["calories"] > 0

\* C10: the lookups of a request are issued in input order, one per line,
\* each for a line that passed validation and only after every earlier
\* lookup succeeded; a request that stops at the line of 0-based index i has
\* issued i lookups when that line is rejected and i + 1 when its lookup
\* failed.
C10_LookupsInOrder ==
    pc # "idle" =>
        /\ \A j \in DOMAIN callLog :
              /\ callLog[j].line = j
              /\ callLog[j].fdcId = Lines[j].fdcId
              /\ ValidLine(Lines[j])
              /\ j < Len(callLog) => callLog[j].outcome = "ok"
        /\ pc = "loop" => (~LookupFailed /\ Len(callLog) = idx - 1)
        /\ (pc = "done" /\ response.status # 200 /\ Lines # <<>>) =>
              IF LookupFailed
                 THEN Len(callLog) = (idx - 1) + 1
                 ELSE Len(callLog) = idx - 1 /\ ~ValidLine(Lines[idx])
        /\ Succeeded => Len(callLog) = Len(Lines)

C10_Witness ==
    /\ pc = "done"
    /\ response.status = 400
    /\ idx = 2
    /\ Len(callLog) = 1

(***************************************************************************)
(* Properties of the recipe store (checked under SpecStore).               *)
(***************************************************************************)
\* C8: a save_recipe request whose name or ingredient list is empty or
\* missing is answered 400 'Missing required fields' and leaves the recipes
\* table as it was.
C8_InvalidSavePersistsNothing ==
    [][(storeOp'.op = "save" /\ (~Truthy(storeOp'.name) \/ ~Truthy(storeOp'.ingredients)))
          => /\ recipes' = recipes
             /\ storeResp' = store_error_response("Missing required fields", 400)]_vars

C8_Witness ==
    /\ storeOp.op = "save"
    /\ storeOp.name = JStr("")
    /\ Truthy(storeOp.ingredients)
    /\ storeResp.status = 400
    /\ Len(recipes) = 1

SavedIdsOf(user_id) == {id \in DOMAIN saved : saved[id].user_id = user_id}

\* C9: a successful get_recipes answer for user u lists exactly the recipes
\* u saved, each once and each with the name, ingredient list and nutrition
\* given at save time, a later created_at before an earlier one; with none
\* saved it is the empty list.
C9_ListIsTheUsersRecipesNewestFirst ==
    (storeOp.op = "get" /\ storeResp.status = 200) =>
        LET rows == storeResp.rows
        IN  /\ {rows[i].id : i \in DOMAIN rows} = SavedIdsOf(storeOp.user_id)
            /\ Len(rows) = Cardinality(SavedIdsOf(storeOp.user_id))
            /\ \A i \in DOMAIN rows :
                  /\ rows[i].name = saved[rows[i].id].name.s
                  /\ rows[i].ingredients = saved[rows[i].id].ingredients
                  /\ rows[i].nutrition = saved[rows[i].id].nutrition
            /\ \A i, j \in DOMAIN rows : i < j => rows[i].created_at >= rows[j].created_at

C9_Witness ==
    /\ storeOp.op = "get"
    /\ storeResp.status = 200
    /\ Len(storeResp.rows) = 2
    /\ storeResp.rows[1].created_at > storeResp.rows[2].created_at
    /\ Len(recipes) = 2
    /\ recipes[1].user_id = recipes[2].user_id

====
